---- MODULE Spec2Model ----
(***************************************************************************)
(* Model of core/controllers/profile.py: the request handlers of the       *)
(* profile page, the preferences page and the editor-prerequisites         *)
(* (terms + username) flow.  The handlers are stateless; all state lives   *)
(* in the user settings kept by core.domain.user_services.  A handler is   *)
(* one atomic step, except EditorPrerequisitesHandler.post: it checks      *)
(* get_username and later calls set_username, and other requests run       *)
(* between the two, so it is two steps with the request in flight between  *)
(* them.  Its first step runs up to the get_username check (lines          *)
(* 134-147), its second is the set_username call (lines 149-154).          *)
(*                                                                         *)
(* JSON values of payloads and responses are written as strings; None      *)
(* stands for Python's None (an absent payload key, an unset username).    *)
(* base.require_user rejects a request without a logged-in user before the *)
(* handler body runs, so the handlers it decorates are modelled for        *)
(* uid \in Users; ProfilePage.get is not decorated and takes any UserIds.  *)
(* resp is the response of the step just taken (NoResp when the step sent  *)
(* none); its arg echoes the request's main input (the username, the       *)
(* update_type or, for refused terms, agreed_to_terms).                    *)
(***************************************************************************)
EXTENDS Bags, FiniteSets, Integers, Sequences, TLC

\* ---------------------------------------------------------------- bounds
NumUsers == 2
MaxTime == 1
MaxInFlight == 2

\* ---------------------------------------------------------------- values
None == "<None>"
NoUser == 0
NoTime == 0
Users == 1..NumUsers
UserIds == Users \cup {NoUser}

Times == 1..MaxTime

\* usernames submitted to the read-only handlers, and to post
UsernameInputs == {"", "a!", "alice", "bob"}
PostUsernameInputs == {"a!", "alice", "bob"}
AgreedInputs == {"True", "False", None, "'yes'", "1"}
\* <<username, agreed_to_terms>> of an EditorPrerequisitesHandler.post
\* payload: every username with the terms accepted, and one username with
\* each other value of agreed_to_terms (post refuses before it uses it)
PostInputs == {<<name, "True">> : name \in PostUsernameInputs}
                  \cup {<<"alice", a>> : a \in AgreedInputs \ {"True"}}
\* <<update_type, data>> of a PreferencesHandler.put payload
PutInputs == {<<"user_bio", "''">>, <<"user_bio", "'hi'">>,
              <<"preferred_language_codes", "[]">>,
              <<"preferred_language_codes", "['en']">>,
              <<"bogus", "'hi'">>, <<None, None>>}

VARIABLES username, last_agreed_to_terms, user_bio,
          preferred_language_codes, inflight, resp

settings == <<username, last_agreed_to_terms, user_bio,
              preferred_language_codes>>
vars == <<username, last_agreed_to_terms, user_bio,
          preferred_language_codes, inflight, resp>>

\* ------------------------------------------------------- python builtins
isinstance_bool(v) == v \in {"True", "False"}
truthy(v) == v \notin {None, "False", "", "0", "[]"}
bool(t) == t # NoTime

\* ------------------------------------------- core.domain.user_services
IsAlphanumeric(name) == name \in {"alice", "bob"}

require_valid_username(name) ==
    IF ~truthy(name) THEN "Empty username supplied."
    ELSE IF ~IsAlphanumeric(name)
         THEN "Usernames can only have alphanumeric characters."
         ELSE None

is_username_taken(name) == \E u \in Users : username[u] = name

get_user_settings_from_username(name) ==
    IF \E u \in Users : username[u] = name
    THEN CHOOSE u \in Users : username[u] = name
    ELSE NoUser

get_username(uid) == username[uid]

\* the ValidationError set_username raises, None when it raises nothing
set_username_error(uid, name) ==
    IF require_valid_username(name) # None THEN require_valid_username(name)
    ELSE IF is_username_taken(name)
         THEN "Sorry, the username is already taken! Please pick a different one."
         ELSE None

set_username(uid, name) ==
    IF set_username_error(uid, name) # None THEN username
    ELSE [username EXCEPT ![uid] = name]

\* t is datetime.utcnow() at the call
record_agreement_to_terms(uid, t) ==
    [last_agreed_to_terms EXCEPT ![uid] = t]

update_user_bio(uid, data) == [user_bio EXCEPT ![uid] = data]

update_preferred_language_codes(uid, data) ==
    [preferred_language_codes EXCEPT ![uid] = data]

\* ------------------------------------------------ core.controllers.base
require_user(uid) == uid # NoUser

Response(handler, uid, arg, outcome, message, values) ==
    [handler |-> handler, user_id |-> uid, arg |-> arg, outcome |-> outcome,
     message |-> message, values |-> values]

NoResp == Response("none", NoUser, None, "none", None, {})

json_bool(b) == IF b THEN "True" ELSE "False"

HasKey(r, key) == \E kv \in r.values : kv[1] = key
Val(r, key) == (CHOOSE kv \in r.values : kv[1] = key)[2]

\* ---------------------------------------------------------- ProfilePage
\* mutant: the second PageNotFoundException (line 43) is forgotten
ProfilePage_response_no_404(uid, name) ==
    IF ~truthy(name)
    THEN Response("ProfilePage.get", uid, name, "not_found", None, {})
    ELSE IF get_user_settings_from_username(name) = NoUser
    THEN Response("ProfilePage.get", uid, name, "ok", None,
                  {<<"nav_mode", "profile">>, <<"user_bio", "''">>})
    ELSE Response("ProfilePage.get", uid, name, "ok", None,
                  {<<"nav_mode", "profile">>,
                   <<"user_bio",
                     user_bio[get_user_settings_from_username(name)]>>})

ProfilePage_response(uid, name) ==
    IF ~truthy(name)
    THEN Response("ProfilePage.get", uid, name, "not_found", None, {})
    ELSE IF get_user_settings_from_username(name) = NoUser
    THEN Response("ProfilePage.get", uid, name, "not_found", None, {})
    ELSE Response("ProfilePage.get", uid, name, "ok", None,
                  {<<"nav_mode", "profile">>,
                   <<"user_bio",
                     user_bio[get_user_settings_from_username(name)]>>})

ProfilePage_get(uid, name) ==
    /\ resp' = ProfilePage_response(uid, name)
    /\ UNCHANGED <<settings, inflight>>

\* ------------------------------------------------------ PreferencesPage
PreferencesPage_get(uid) ==
    /\ require_user(uid)
    /\ resp' = Response("PreferencesPage.get", uid, None, "ok", None,
                        {<<"nav_mode", "profile">>})
    /\ UNCHANGED <<settings, inflight>>

\* --------------------------------------------------- PreferencesHandler
PreferencesHandler_get_values(uid) ==
    {<<"user_bio", user_bio[uid]>>,
     <<"preferred_language_codes", preferred_language_codes[uid]>>}

PreferencesHandler_get(uid) ==
    /\ require_user(uid)
    /\ resp' = Response("PreferencesHandler.get", uid, None,
                       "ok", None,
                        PreferencesHandler_get_values(uid))
    /\ UNCHANGED <<settings, inflight>>

\* mutant: the else branch (lines 97-99) falls through to update_user_bio
PreferencesHandler_put_branch_else_bio(update_type) ==
    IF update_type = "preferred_language_codes"
    THEN "update_preferred_language_codes"
    ELSE "update_user_bio"

\* mutant: the two update calls (lines 94, 96) are swapped
PreferencesHandler_put_branch_swapped(update_type) ==
    IF update_type = "user_bio" THEN "update_preferred_language_codes"
    ELSE IF update_type = "preferred_language_codes"
         THEN "update_user_bio"
         ELSE "InvalidInputException"

\* lines 93-99: the branch of put that runs for an update_type
PreferencesHandler_put_branch(update_type) ==
    IF update_type = "user_bio" THEN "update_user_bio"
    ELSE IF update_type = "preferred_language_codes"
         THEN "update_preferred_language_codes"
         ELSE "InvalidInputException"

PreferencesHandler_put(uid, update_type, data) ==
    /\ require_user(uid)
    /\ user_bio' =
           IF PreferencesHandler_put_branch(update_type) = "update_user_bio"
           THEN update_user_bio(uid, data) ELSE user_bio
    /\ preferred_language_codes' =
           IF PreferencesHandler_put_branch(update_type)
                  = "update_preferred_language_codes"
           THEN update_preferred_language_codes(uid, data)
           ELSE preferred_language_codes
    /\ resp' = IF PreferencesHandler_put_branch(update_type)
                      = "InvalidInputException"
               THEN Response("PreferencesHandler.put", uid, update_type,
                             "invalid_input",
                             "Invalid update type", {})
               ELSE Response("PreferencesHandler.put", uid, update_type,
                             "ok", None, {})
    /\ UNCHANGED <<username, last_agreed_to_terms, inflight>>

\* ---------------------------------------------- EditorPrerequisitesPage
EditorPrerequisitesPage_get(uid) ==
    /\ require_user(uid)
    /\ resp' = Response("EditorPrerequisitesPage.get", uid, None, "ok", None,
                        {<<"agreement", "EDITOR_PREREQUISITES_AGREEMENT">>,
                         <<"nav_mode", "profile">>})
    /\ UNCHANGED <<settings, inflight>>

\* ------------------------------------------- EditorPrerequisitesHandler
EditorPrerequisitesHandler_get(uid) ==
    /\ require_user(uid)
    /\ resp' = Response("EditorPrerequisitesHandler.get", uid, None, "ok",
                        None,
                        {<<"has_agreed_to_terms",
                           json_bool(bool(last_agreed_to_terms[uid]))>>,
                         <<"username", username[uid]>>})
    /\ UNCHANGED <<settings, inflight>>

\* mutant: line 137 without the isinstance test
agreed_to_terms_accepted_truthy(agreed_to_terms) == truthy(agreed_to_terms)

\* line 137, negated: the terms were accepted
agreed_to_terms_accepted(agreed_to_terms) ==
    isinstance_bool(agreed_to_terms) /\ truthy(agreed_to_terms)

\* mutant: line 142 is missing, the agreement is never recorded
post_record_agreement_skipped(uid, agreed_to_terms, t) ==
    last_agreed_to_terms

\* lines 137-142: the agreement timestamps after the first statement of post
post_record_agreement(uid, agreed_to_terms, t) ==
    IF agreed_to_terms_accepted(agreed_to_terms)
    THEN record_agreement_to_terms(uid, t)
    ELSE last_agreed_to_terms

\* mutant: the check of line 144 is missing
username_already_set_never(uid) == FALSE

\* line 144: a username has already been set for this user
username_already_set(uid) == truthy(get_username(uid))

\* mutant: the ValidationError is swallowed (lines 151-152)
post_set_username_response_ok(uid, name, error) ==
    Response("EditorPrerequisitesHandler.post", uid, name, "ok", None, {})

\* lines 149-154: the response of post after the call of set_username
post_set_username_response(uid, name, error) ==
    IF error # None
    THEN Response("EditorPrerequisitesHandler.post", uid, name,
                  "invalid_input", error, {})
    ELSE Response("EditorPrerequisitesHandler.post", uid, name, "ok", None,
                  {})

\* a post between its get_username check and its set_username call, with
\* the local variable username it holds
Request(uid, name) == [user_id |-> uid, username |-> name]

TermsMessage == "you will need to accept the license terms."

\* lines 134-147: read the payload, check the terms, record the agreement
\* at time t (the clock never runs backwards), check get_username
EditorPrerequisitesHandler_post(uid, name, agreed_to_terms, t) ==
    /\ require_user(uid)
    /\ \A u \in Users : last_agreed_to_terms[u] <= t
    /\ last_agreed_to_terms' = post_record_agreement(uid, agreed_to_terms, t)
    /\ IF ~agreed_to_terms_accepted(agreed_to_terms)
       THEN /\ resp' = Response("EditorPrerequisitesHandler.post", uid,
                                agreed_to_terms, "invalid_input",
                                TermsMessage, {})
            /\ UNCHANGED inflight
       ELSE IF username_already_set(uid)
       THEN /\ resp' = Response("EditorPrerequisitesHandler.post", uid,
                                name, "ok", None, {})
            /\ UNCHANGED inflight
       ELSE /\ BagCardinality(inflight) < MaxInFlight
            /\ inflight' = inflight (+) SetToBag({Request(uid, name)})
            /\ resp' = NoResp
    /\ UNCHANGED <<username, user_bio, preferred_language_codes>>

\* lines 149-154: the set_username call and its outcome
post_set_username(r) ==
    /\ BagIn(r, inflight)
    /\ username' = set_username(r.user_id, r.username)
    /\ resp' = post_set_username_response(
                   r.user_id, r.username,
                   set_username_error(r.user_id, r.username))
    /\ inflight' = inflight (-) SetToBag({r})
    /\ UNCHANGED <<last_agreed_to_terms, user_bio, preferred_language_codes>>

\* ------------------------------------------------- UsernameCheckHandler
\* mutant: require_valid_username (lines 166-169) is not called
UsernameCheckHandler_response_unvalidated(uid, name) ==
    Response("UsernameCheckHandler.post", uid, name, "ok", None,
             {<<"username_is_taken", json_bool(is_username_taken(name))>>})

UsernameCheckHandler_response(uid, name) ==
    IF require_valid_username(name) # None
    THEN Response("UsernameCheckHandler.post", uid, name, "invalid_input",
                  require_valid_username(name), {})
    ELSE Response("UsernameCheckHandler.post", uid, name, "ok", None,
                  {<<"username_is_taken",
                     json_bool(is_username_taken(name))>>})

UsernameCheckHandler_post(uid, name) ==
    /\ require_user(uid)
    /\ resp' = UsernameCheckHandler_response(uid, name)
    /\ UNCHANGED <<settings, inflight>>

\* -------------------------------------------------------- specification
Init ==
    /\ username = [u \in Users |-> None]
    /\ last_agreed_to_terms = [u \in Users |-> NoTime]
    /\ user_bio = [u \in Users |-> "''"]
    /\ preferred_language_codes = [u \in Users |-> "[]"]
    /\ inflight = EmptyBag
    /\ resp = NoResp

Requests ==
    {Request(uid, name) : uid \in Users, name \in PostUsernameInputs}

Next ==
    \/ \E uid \in UserIds, name \in UsernameInputs : ProfilePage_get(uid, name)
    \/ \E uid \in Users : PreferencesPage_get(uid)
    \/ \E uid \in Users : PreferencesHandler_get(uid)
    \/ \E uid \in Users, put \in PutInputs :
          PreferencesHandler_put(uid, put[1], put[2])
    \/ \E uid \in Users : EditorPrerequisitesPage_get(uid)
    \/ \E uid \in Users : EditorPrerequisitesHandler_get(uid)
    \/ \E uid \in Users, post \in PostInputs, t \in Times :
          EditorPrerequisitesHandler_post(uid, post[1], post[2], t)
    \/ \E r \in Requests : post_set_username(r)
    \/ \E uid \in Users, name \in UsernameInputs :
          UsernameCheckHandler_post(uid, name)

Spec == Init /\ [][Next]_vars

\* ---------------------------------------------------------------- claims
PostHandler == "EditorPrerequisitesHandler.post"

\* the onboarding stage of a user: 0 terms not agreed, 1 terms agreed and no
\* username, 2 username set; -1 is a username without agreement
Stage(u) ==
    IF truthy(username[u])
    THEN (IF bool(last_agreed_to_terms[u]) THEN 2 ELSE -1)
    ELSE (IF bool(last_agreed_to_terms[u]) THEN 1 ELSE 0)

\* C1: once a user's username is non-empty no step changes it (so a later
\* post of that user cannot alter it).
C1_UsernameImmutable ==
    [][\A u \in Users :
          truthy(username[u]) => username'[u] = username[u]]_vars

\* C2: a post whose agreed_to_terms is not the boolean true yields
\* invalid-input, records no agreement, sets no username and leaves no
\* request in flight.
C2_TermsNotAccepted ==
    [][resp'.handler \in {"none", PostHandler}
       => \A uid \in Users, post \in PostInputs, t \in Times :
             (/\ post[2] # "True"
              /\ EditorPrerequisitesHandler_post(uid, post[1], post[2], t))
             => /\ resp' = Response(PostHandler, uid, post[2],
                                    "invalid_input", TermsMessage, {})
                /\ last_agreed_to_terms' = last_agreed_to_terms
                /\ username' = username
                /\ inflight' = inflight]_vars

C2_Witness ==
    /\ resp.handler = PostHandler
    /\ resp.outcome = "invalid_input"
    /\ resp.message = TermsMessage
    /\ resp.arg = "'yes'"
    /\ ~bool(last_agreed_to_terms[resp.user_id])

\* C3: a put whose update_type is neither user_bio nor
\* preferred_language_codes yields invalid-input and changes no settings.
C3_InvalidUpdateType ==
    [][resp'.handler = "PreferencesHandler.put"
       => \A uid \in Users, put \in PutInputs :
             (/\ put[1] \notin {"user_bio", "preferred_language_codes"}
              /\ PreferencesHandler_put(uid, put[1], put[2]))
             => /\ resp'.outcome = "invalid_input"
                /\ user_bio' = user_bio
                /\ preferred_language_codes' = preferred_language_codes
                /\ username' = username
                /\ last_agreed_to_terms' = last_agreed_to_terms]_vars

C3_Witness ==
    /\ resp.handler = "PreferencesHandler.put"
    /\ resp.outcome = "invalid_input"
    /\ resp.arg = None
    /\ \E u \in Users : user_bio[u] = "'hi'"

\* C4: a post (terms accepted) of a user without a username goes on to
\* set_username, and set_username with a valid, untaken name for a user
\* still without a username succeeds and sets it; a post of a user who has
\* a username returns success and leaves every username as it was.
C4_SetOnceThenNoOp ==
    [][resp'.handler \in {"none", PostHandler}
       => \A uid \in Users, name \in PostUsernameInputs :
             /\ \A t \in Times :
                   EditorPrerequisitesHandler_post(uid, name, "True", t)
                   => IF truthy(username[uid])
                      THEN /\ resp' = Response(PostHandler, uid, name, "ok",
                                               None, {})
                           /\ username' = username
                           /\ inflight' = inflight
                      ELSE /\ resp' = NoResp
                           /\ username' = username
                           /\ BagIn(Request(uid, name), inflight')
             /\ (/\ post_set_username(Request(uid, name))
                 /\ ~truthy(username[uid])
                 /\ require_valid_username(name) = None
                 /\ ~is_username_taken(name))
                => /\ resp' = Response(PostHandler, uid, name, "ok", None,
                                       {})
                   /\ username' = [username EXCEPT ![uid] = name]]_vars

C4_Witness ==
    /\ resp.handler = PostHandler
    /\ resp.outcome = "ok"
    /\ resp.arg = "bob"
    /\ username[resp.user_id] = "alice"

\* C5: after a put of user_bio a get of the same user returns that bio and
\* the language codes of before the put; the same put repeated right after
\* changes nothing.
C5_BioRoundTrip ==
    [][resp'.handler = "PreferencesHandler.put"
       => \A uid \in Users, data \in {"''", "'hi'"} :
             PreferencesHandler_put(uid, "user_bio", data)
             => /\ resp'.outcome = "ok"
                /\ PreferencesHandler_get_values(uid)' =
                       {<<"user_bio", data>>,
                        <<"preferred_language_codes",
                          preferred_language_codes[uid]>>}
                /\ (/\ resp.handler = "PreferencesHandler.put"
                    /\ resp.user_id = uid
                    /\ resp.arg = "user_bio"
                    /\ user_bio[uid] = data)
                   => (PreferencesHandler_get_values(uid)'
                           = PreferencesHandler_get_values(uid)
                       /\ UNCHANGED settings)]_vars

C5_Witness ==
    /\ resp.handler = "PreferencesHandler.get"
    /\ HasKey(resp, "user_bio")
    /\ Val(resp, "user_bio") = "'hi'"
    /\ Val(resp, "preferred_language_codes") = "['en']"

\* C6: the username check yields invalid-input for a username that fails
\* format validation, otherwise username_is_taken is true exactly when some
\* user's settings hold that username; no settings change.
C6_UsernameCheck ==
    [][resp'.handler = "UsernameCheckHandler.post"
       => \A uid \in Users, name \in UsernameInputs :
             UsernameCheckHandler_post(uid, name)
             => /\ IF require_valid_username(name) # None
                   THEN resp'.outcome = "invalid_input"
                   ELSE /\ resp'.outcome = "ok"
                        /\ Val(resp', "username_is_taken") =
                               json_bool(\E u \in Users : username[u] = name)
                /\ UNCHANGED settings]_vars

C6_Witness ==
    /\ resp.handler = "UsernameCheckHandler.post"
    /\ resp.outcome = "ok"
    /\ Val(resp, "username_is_taken") = "True"
    /\ \E u \in Users : username[u] = resp.arg /\ u # resp.user_id

\* C7: the profile page is not-found for an empty username and for one no
\* user settings hold, and otherwise shows the stored bio of the user who
\* holds it; it changes no settings and needs no logged-in user.
C7_ProfilePage ==
    [][resp'.handler = "ProfilePage.get"
       => \A uid \in UserIds, name \in UsernameInputs :
             ProfilePage_get(uid, name)
             => /\ IF name = "" \/ ~(\E u \in Users : username[u] = name)
                   THEN resp'.outcome = "not_found"
                   ELSE /\ resp'.outcome = "ok"
                        /\ \E u \in Users :
                              /\ username[u] = name
                              /\ Val(resp', "user_bio") = user_bio[u]
                /\ UNCHANGED <<settings, inflight>>]_vars

C7_Witness ==
    /\ resp.handler = "ProfilePage.get"
    /\ resp.user_id = NoUser
    /\ resp.outcome = "ok"
    /\ Val(resp, "user_bio") = "'hi'"
    /\ \E u, v \in Users :
          username[u] = resp.arg /\ truthy(username[v]) /\ user_bio[v] = "''"

\* C8: a post with the terms accepted records the agreement before it
\* reaches set_username; when set_username rejects the name the outcome is
\* invalid-input with the validation message, no username changes (an unset
\* one stays unset) and the agreement stays recorded.
C8_RejectedUsernameKeepsAgreement ==
    [][resp'.handler \in {"none", PostHandler}
       => /\ \A uid \in Users, name \in PostUsernameInputs, t \in Times :
                EditorPrerequisitesHandler_post(uid, name, "True", t)
                => last_agreed_to_terms'[uid] = t
          /\ \A r \in Requests :
                (/\ post_set_username(r)
                 /\ set_username_error(r.user_id, r.username) # None)
                => /\ resp'.outcome = "invalid_input"
                   /\ resp'.message =
                          set_username_error(r.user_id, r.username)
                   /\ username' = username
                   /\ bool(last_agreed_to_terms[r.user_id])
                   /\ bool(last_agreed_to_terms'[r.user_id])]_vars

C8_Witness ==
    /\ resp.handler = PostHandler
    /\ resp.outcome = "invalid_input"
    /\ resp.message = require_valid_username("a!")
    /\ ~truthy(username[resp.user_id])
    /\ bool(last_agreed_to_terms[resp.user_id])

\* C9: the onboarding stage of a user never moves back (neither agreement
\* nor username is cleared) and a username is never set without agreement.
C9_OnboardingMonotone ==
    [][\A u \in Users :
          /\ Stage(u)' >= Stage(u)
          /\ Stage(u)' >= 0
          /\ bool(last_agreed_to_terms[u]) => bool(last_agreed_to_terms'[u])
          /\ truthy(username[u]) => truthy(username'[u])]_vars

C9_Witness ==
    \E u, v \in Users : Stage(u) = 2 /\ Stage(v) = 1 /\ resp.user_id = u
                        /\ resp.handler = PostHandler

\* C10: no two users ever hold the same username, and set_username for a
\* name another user holds yields invalid-input and changes no username.
C10_UniqueUsernames ==
    [][/\ \A u, v \in Users :
             (u # v /\ truthy(username'[u])) => username'[u] # username'[v]
       /\ resp'.handler = PostHandler
          => \A r \in Requests :
                (/\ post_set_username(r)
                 /\ \E v \in Users \ {r.user_id} : username[v] = r.username)
                => /\ resp'.outcome = "invalid_input"
                   /\ username' = username]_vars

C10_Witness ==
    /\ resp.handler = PostHandler
    /\ resp.outcome = "invalid_input"
    /\ resp.message = set_username_error(resp.user_id, resp.arg)
    /\ ~truthy(username[resp.user_id])
    /\ \E v \in Users \ {resp.user_id} : username[v] = resp.arg
====
